---- MODULE Spec2Model ----
(***************************************************************************)
(* A model of the NeuralNetwork object described by the code cells of      *)
(* src/InterestingBits.ipynb: construction from a shape list or from a     *)
(* JSON file, load, the feed-forward loop and the bias and weight updates. *)
(*                                                                         *)
(* A numpy array of two dimensions is a sequence of rows, each a sequence  *)
(* of integers (the nested-array form of the JSON document); an array of   *)
(* one dimension is a sequence of integers.  Numbers are integers: the     *)
(* inputs are chosen so that every float the code computes is integral.    *)
(* One behaviour is the life of one object; every code cell is one action, *)
(* and an exception that leaves a cell is recorded in err.                 *)
(* The weight-update cell is taken as it stands: it does not compile.      *)
(* Allocation always succeeds: no cell raises MemoryError here.  load is   *)
(* called on a network that has not run a pass yet.                        *)
(***************************************************************************)
EXTENDS Integers, Sequences, FiniteSets

\* ------------------------------------------------------------------ bounds
MaxUnits == 4      \* a shape list holds at most this many neurons in all
MaxBatch == 2      \* a mini-batch holds 1..MaxBatch examples (columns)
MaxPasses == 2     \* forward passes run on one network

BatchVals == {1}   \* the value filling an input batch
DeltaVals == {-1, 1}\* the value filling the deltas of a backward pass
DocVals == {1}     \* the value filling the arrays of a persisted document

VARIABLES self, op, arg, err, pc, passes

vars == <<self, op, arg, err, pc, passes>>

\* ------------------------------------------------------- numpy array model
Rows(m) == Len(m)

Cols(m) == Len(m[1])

Dims(m) == <<Rows(m), Cols(m)>>

Const(r, c, v) == [i \in 1..r |-> [j \in 1..c |-> v]]

Max(a, b) == IF a >= b THEN a ELSE b

Min(a, b) == IF a <= b THEN a ELSE b

RECURSIVE SumTo(_, _)
SumTo(f, n) == IF n = 0 THEN 0 ELSE f[n] + SumTo(f, n - 1)

\* a.T
Transpose(m) == [j \in 1..Cols(m) |-> [i \in 1..Rows(m) |-> m[i][j]]]

\* np.dot(a, b) of two 2-d arrays is defined when the inner dimensions agree
DotOK(a, b) == Cols(a) = Rows(b)

Dot(a, b) ==
    [i \in 1..Rows(a) |-> [j \in 1..Cols(b) |->
        SumTo([x \in 1..Cols(a) |-> a[i][x] * b[x][j]], Cols(a))]]

\* numpy broadcasting of two 2-d shapes: each axis equal, or one of them 1
Broadcastable(d, e) == \A x \in 1..2 : d[x] = e[x] \/ d[x] = 1 \/ e[x] = 1

BroadcastDims(d, e) == <<Max(d[1], e[1]), Max(d[2], e[2])>>

At(m, i, j) == m[IF Rows(m) = 1 THEN 1 ELSE i][IF Cols(m) = 1 THEN 1 ELSE j]

\* a + b and a - b with broadcasting
Add(a, b) ==
    LET d == BroadcastDims(Dims(a), Dims(b))
    IN  [i \in 1..d[1] |-> [j \in 1..d[2] |-> At(a, i, j) + At(b, i, j)]]

Sub(a, b) ==
    LET d == BroadcastDims(Dims(a), Dims(b))
    IN  [i \in 1..d[1] |-> [j \in 1..d[2] |-> At(a, i, j) - At(b, i, j)]]

\* scalar * array
Scale(c, m) == [i \in 1..Rows(m) |-> [j \in 1..Cols(m) |-> c * m[i][j]]]

\* np.sum(d, axis=1): one sum per row, an array of one dimension
SumAxis1(d) == [i \in 1..Rows(d) |-> SumTo(d[i], Cols(d))]

\* the rectified linear unit, vectorized
Relu(m) == [i \in 1..Rows(m) |-> [j \in 1..Cols(m) |-> Max(0, m[i][j])]]

ApplyActivation(name, m) == IF name = "relu" THEN Relu(m) ELSE m

\* ------------------------------------------------------------ shape lists
RECURSIVE SumSeq(_)
SumSeq(s) == IF s = <<>> THEN 0 ELSE Head(s) + SumSeq(Tail(s))

\* the lists a caller passes as shape_or_file, the short ones included
ShapeLists ==
    {s \in UNION {[1..n -> 1..MaxUnits] : n \in 0..MaxUnits} : SumSeq(s) <= MaxUnits}

ValidShapes == {s \in ShapeLists : Len(s) >= 2}

Activations == {"relu"}

\* -------------------------------------------------------------- the object
\* attrs is the set of attributes assigned on the instance so far; a field
\* that is no attribute yet holds an empty placeholder.
NoObject ==
    [attrs |-> {}, shape |-> <<>>, activation |-> "", weights |-> <<>>,
     biases |-> <<>>, activations |-> <<>>, outputs |-> <<>>, deltas |-> <<>>]

\* one zero array per non-input layer, of dimensions (shape[l], shape[l-1])
InitWeights(shape) ==
    [l \in 1..(Len(shape) - 1) |-> Const(shape[l + 1], shape[l], 0)]

\* one zero column per non-input layer, of dimensions (shape[l], 1)
InitBiases(shape) == [l \in 1..(Len(shape) - 1) |-> Const(shape[l + 1], 1, 0)]

\* the containers of the forward intermediates, empty until a pass fills them
InitActivations(shape) == <<>>

InitOutputs(shape) == <<>>

\* the data-model invariants of a parameter store: L-1 weights and biases,
\* weight l of dimensions (shape[l], shape[l-1]), bias l of (shape[l], 1)
WellFormed(s) ==
    /\ {"shape", "weights", "biases"} \subseteq s.attrs
    /\ Len(s.shape) >= 2
    /\ Len(s.weights) = Len(s.shape) - 1
    /\ Len(s.biases) = Len(s.shape) - 1
    /\ \A l \in 1..(Len(s.shape) - 1) :
          /\ Dims(s.weights[l]) = <<s.shape[l + 1], s.shape[l]>>
          /\ Dims(s.biases[l]) = <<s.shape[l + 1], 1>>

\* ---------------------------------------------------- persisted documents
Keys == {"shape", "weights", "biases"}

DocShapes == {s \in ValidShapes : SumSeq(s) < MaxUnits}

DocWeights(shape, v) ==
    [l \in 1..(Len(shape) - 1) |-> Const(shape[l + 1], shape[l], v)]

DocBiases(shape, v) == [l \in 1..(Len(shape) - 1) |-> Const(shape[l + 1], 1, v)]

Wider(shape) == [l \in 1..Len(shape) |-> shape[l] + 1]

\* a document declaring shape, whose weight or bias entries are those of the
\* declared shape (ok), one entry too many (count) or one row and column too
\* large (dims)
FullDoc(shape, kind, v) ==
    [shape |-> shape,
     weights |-> CASE kind = "wcount" -> DocWeights(shape \o <<1>>, v)
                   [] kind = "wdims" -> DocWeights(Wider(shape), v)
                   [] OTHER -> DocWeights(shape, v),
     biases |-> CASE kind = "bcount" -> DocBiases(shape \o <<1>>, v)
                  [] kind = "bdims" -> DocBiases(Wider(shape), v)
                  [] OTHER -> DocBiases(shape, v)]

DocKinds == {"ok", "wcount", "wdims", "bcount", "bdims"}

Without(doc, key) == [k \in (DOMAIN doc) \ {key} |-> doc[k]]

Docs ==
    {FullDoc(s, kind, v) : s \in DocShapes, kind \in DocKinds, v \in DocVals}
    \cup {Without(FullDoc(s, "ok", v), key) : s \in DocShapes, v \in DocVals, key \in Keys}

\* what open(file_location) finds: no file, or a file holding a document
Files == {[exists |-> FALSE]} \cup {[exists |-> TRUE, doc |-> d] : d \in Docs}

\* ------------------------------------------------------------------- load
\* a handler that prints the message and does not raise again
LoadExceptSwallowed(e) == "none"

\* except KeyError as e: print(...); raise
LoadExcept(e) == e

\* def load(self, file_location): the attributes assigned before a key is
\* found missing stay assigned
load(s, file) ==
    IF ~file.exists THEN [self |-> s, err |-> "FileNotFoundError"]
    ELSE
      LET data == file.doc
          s1 == [s EXCEPT !.attrs = @ \cup {"shape"}, !.shape = data["shape"]]
          s2 == [s1 EXCEPT !.attrs = @ \cup {"weights"}, !.weights = data["weights"]]
          s3 == [s2 EXCEPT !.attrs = @ \cup {"biases"}, !.biases = data["biases"]]
      IN  CASE "shape" \notin DOMAIN data -> [self |-> s, err |-> LoadExcept("KeyError")]
            [] "shape" \in DOMAIN data /\ "weights" \notin DOMAIN data ->
                   [self |-> s1, err |-> LoadExcept("KeyError")]
            [] {"shape", "weights"} \subseteq DOMAIN data /\ "biases" \notin DOMAIN data ->
                   [self |-> s2, err |-> LoadExcept("KeyError")]
            [] OTHER -> [self |-> s3, err |-> "none"]

\* ------------------------------------------------------------ constructor
\* the str branch: FileNotFoundError and MemoryError are printed and raised
\* again, any other exception of load is not caught and leaves __init__
InitStrExcept(e) ==
    CASE e = "FileNotFoundError" -> "FileNotFoundError"
      [] e = "MemoryError" -> "MemoryError"
      [] OTHER -> e

init_str(file) ==
    LET r == load(NoObject, file)
    IN  [self |-> r.self, err |-> InitStrExcept(r.err)]

\* a check that lets a one-element list through
TooShortOffByOne(shape_or_file) == Len(shape_or_file) < 1

\* len(shape_or_file) < 2
TooShort(shape_or_file) == Len(shape_or_file) < 2

\* the list branch; dropout adds the dropout masks' container
init_list(shape_or_file, activation, dropout) ==
    IF TooShort(shape_or_file) THEN [self |-> NoObject, err |-> "ValueError"]
    ELSE [self |->
            [attrs |-> {"shape", "activation", "weights", "biases",
                        "activations", "outputs"}
                       \cup (IF dropout THEN {"dropouts"} ELSE {}),
             shape |-> shape_or_file,
             activation |-> activation,
             weights |-> InitWeights(shape_or_file),
             biases |-> InitBiases(shape_or_file),
             activations |-> InitActivations(shape_or_file),
             outputs |-> InitOutputs(shape_or_file),
             deltas |-> <<>>],
          err |-> "none"]

\* ----------------------------------------------------------- forward pass
\* the iteration with the bias added as a row, np.dot(w, result) + b.T
ForwardStepRowBias(st, w, b) ==
    IF ~DotOK(w, st.result) THEN [st EXCEPT !.err = "ValueError"]
    ELSE
      LET d == Dot(w, st.result)
      IN  IF ~Broadcastable(Dims(d), Dims(Transpose(b)))
          THEN [st EXCEPT !.err = "ValueError"]
          ELSE
            LET out == Add(d, Transpose(b))
                act == ApplyActivation(st.self.activation, out)
            IN  [self |-> [st.self EXCEPT !.outputs = Append(@, out),
                                          !.activations = Append(@, act)],
                 result |-> act, err |-> "none"]

\* one iteration of: for w, b in zip(self.weights, self.biases)
\*   result = np.dot(w, result) + b; self.outputs.append(result)
\*   result = self.activation(result); self.activations.append(result)
\* st is the object, the local result and the exception raised so far
ForwardStep(st, w, b) ==
    IF ~DotOK(w, st.result) THEN [st EXCEPT !.err = "ValueError"]
    ELSE
      LET d == Dot(w, st.result)
      IN  IF ~Broadcastable(Dims(d), Dims(b)) THEN [st EXCEPT !.err = "ValueError"]
          ELSE
            LET out == Add(d, b)
                s1 == [st.self EXCEPT !.outputs = Append(@, out)]
                act == ApplyActivation(s1.activation, out)
            IN  CASE "outputs" \notin st.self.attrs ->
                       [st EXCEPT !.result = out, !.err = "AttributeError"]
                  [] "outputs" \in st.self.attrs /\ "activation" \notin s1.attrs ->
                       [self |-> s1, result |-> out, err |-> "AttributeError"]
                  [] {"outputs", "activation"} \subseteq s1.attrs
                       /\ "activations" \notin s1.attrs ->
                       [self |-> s1, result |-> act, err |-> "AttributeError"]
                  [] OTHER ->
                       [self |-> [s1 EXCEPT !.activations = Append(@, act)],
                        result |-> act, err |-> "none"]

RECURSIVE ForwardLoop(_, _)
ForwardLoop(st, i) ==
    IF st.err # "none" \/ i > Min(Len(st.self.weights), Len(st.self.biases)) THEN st
    ELSE ForwardLoop(ForwardStep(st, st.self.weights[i], st.self.biases[i]), i + 1)

\* a pass that accumulates into the bias arrays in place (b += ...), so that
\* each bias ends up holding an output of the pass
feed_forward_inplace(s, data) ==
    LET st == ForwardLoop([self |-> s, result |-> data, err |-> "none"], 1)
    IN  [self |-> [st.self EXCEPT !.biases = st.self.outputs], err |-> st.err]

\* the loop, entered with result bound to the input batch; it appends to the
\* containers as it finds them
feed_forward(s, data) ==
    IF ~({"weights", "biases"} \subseteq s.attrs)
    THEN [self |-> s, err |-> "AttributeError"]
    ELSE LET st == ForwardLoop([self |-> s, result |-> data, err |-> "none"], 1)
         IN  [self |-> st.self, err |-> st.err]

\* ---------------------------------------------------------- backward pass
\* the outputs the last forward pass appended, one per zipped layer
PassOutputs(s) ==
    LET n == Min(Len(s.weights), Len(s.biases))
    IN  SubSeq(s.outputs, Len(s.outputs) - n + 1, Len(s.outputs))

\* one delta per non-input layer, of the dimensions of that layer's output
Deltas(s, v) ==
    LET outs == PassOutputs(s)
    IN  [l \in 1..Len(outs) |-> Const(Rows(outs[l]), Cols(outs[l]), v)]

backward(s, v) == [s EXCEPT !.attrs = @ \cup {"deltas"}, !.deltas = Deltas(s, v)]

\* ----------------------------------------------------------------- update
\* learning_rate/total and eta/total
Rate(eta, total) == eta \div total

\* a.reshape(dims), row by row; defined when the sizes agree
Reshape(a, dims) ==
    IF Len(a) # dims[1] * dims[2] THEN [err |-> "ValueError", val |-> <<>>]
    ELSE [err |-> "none",
          val |-> [i \in 1..dims[1] |-> [j \in 1..dims[2] |-> a[(i - 1) * dims[2] + j]]]]

\* the column sum used as it is, a one-dimensional array that broadcasts as
\* a row against the bias column
ResapeOmitted(a, dims) == [err |-> "none", val |-> <<a>>]

\* (np.sum(d, axis=1)).resape(b.shape): an ndarray has no attribute resape
Resape(a, dims) == [err |-> "AttributeError", val |-> <<>>]

\* self.biases = [b - (learning_rate/total) * (np.sum(d, axis=1)).resape(b.shape)
\*                for b, d in zip(self.biases, self.deltas)]
RECURSIVE BiasList(_, _, _, _)
BiasList(bs, ds, rate, i) ==
    IF i > Min(Len(bs), Len(ds)) THEN [err |-> "none", val |-> <<>>]
    ELSE
      LET r == Resape(SumAxis1(ds[i]), Dims(bs[i]))
      IN  IF r.err # "none" THEN [err |-> r.err, val |-> <<>>]
          ELSE IF ~Broadcastable(Dims(bs[i]), Dims(r.val))
          THEN [err |-> "ValueError", val |-> <<>>]
          ELSE
            LET rest == BiasList(bs, ds, rate, i + 1)
            IN  IF rest.err # "none" THEN rest
                ELSE [err |-> "none",
                      val |-> <<Sub(bs[i], Scale(rate, r.val))>> \o rest.val]

update_biases(s, learning_rate, total) ==
    IF ~({"biases", "deltas"} \subseteq s.attrs)
    THEN [self |-> s, err |-> "AttributeError"]
    ELSE LET r == BiasList(s.biases, s.deltas, Rate(learning_rate, total), 1)
         IN  IF r.err # "none" THEN [self |-> s, err |-> r.err]
             ELSE [self |-> [s EXCEPT !.biases = r.val], err |-> "none"]

\* self.weights =  [w - (eta/total) * np.dot(d, a.T) \ 
\*                  for w, d, a in zip(self.weights, self.deltas, self.activations)]
\* the backslash that continues the first line is followed by a space, so
\* the cell does not compile: SyntaxError, and no list is built
WeightList(ws, ds, as, rate, i) == [err |-> "SyntaxError", val |-> <<>>]

\* the SyntaxError is raised before any attribute of the network is read
update_weights(s, eta, total) ==
    LET r == WeightList(s.weights, s.deltas, s.activations, Rate(eta, total), 1)
    IN  IF r.err # "none" THEN [self |-> s, err |-> r.err]
        ELSE [self |-> [s EXCEPT !.weights = r.val], err |-> "none"]

\* ------------------------------------------------------------ state machine
Init ==
    /\ self = NoObject
    /\ op = "none"
    /\ arg = <<>>
    /\ err = "none"
    /\ pc = "new"
    /\ passes = 0

\* NeuralNetwork(shape_or_file, activation, dropout) with a list
ConstructList ==
    /\ pc = "new"
    /\ \E list \in ShapeLists, activation \in Activations, dropout \in BOOLEAN :
          LET r == init_list(list, activation, dropout)
          IN  /\ self' = r.self
              /\ err' = r.err
              /\ arg' = list
              /\ pc' = IF r.err = "none" THEN "ready" ELSE "dead"
    /\ op' = "init_list"
    /\ UNCHANGED passes

\* NeuralNetwork(shape_or_file) with the path of a file
ConstructFile ==
    /\ pc = "new"
    /\ \E file \in Files :
          LET r == init_str(file)
          IN  /\ self' = r.self
              /\ err' = r.err
              /\ arg' = file
              /\ pc' = IF r.err = "none" THEN "ready" ELSE "dead"
    /\ op' = "init_str"
    /\ UNCHANGED passes

\* network.load(file_location) on a constructed network, before it is trained
Load ==
    /\ pc = "ready"
    /\ \E file \in Files :
          LET r == load(self, file)
          IN  /\ self' = r.self
              /\ err' = r.err
              /\ arg' = file
    /\ op' = "load"
    /\ pc' = "idle"
    /\ UNCHANGED passes

\* a forward pass on a batch of shape[0] rows and k columns
FeedForward ==
    /\ pc \in {"ready", "idle", "fwd"}
    /\ passes < MaxPasses
    /\ "shape" \in self.attrs
    /\ \E k \in 1..MaxBatch, v \in BatchVals :
          LET data == Const(self.shape[1], k, v)
              r == feed_forward(self, data)
          IN  /\ self' = r.self
              /\ err' = r.err
              /\ arg' = data
              /\ pc' = IF r.err = "none" THEN "fwd" ELSE "idle"
    /\ op' = "forward"
    /\ passes' = passes + 1

\* the backward pass of the batch just fed forward
Backprop ==
    /\ pc = "fwd"
    /\ \E v \in DeltaVals : self' = backward(self, v)
    /\ op' = "backward"
    /\ err' = "none"
    /\ pc' = "bwd"
    /\ UNCHANGED <<arg, passes>>

\* total is the size of the mini-batch; the learning rate is a multiple of it
UpdateBiases ==
    /\ pc = "bwd"
    /\ LET total == Cols(arg)
           r == update_biases(self, total, total)
       IN  /\ self' = r.self
           /\ err' = r.err
    /\ op' = "update_biases"
    /\ pc' = "ub"
    /\ UNCHANGED <<arg, passes>>

UpdateWeights ==
    /\ pc = "ub"
    /\ LET total == Cols(arg)
           r == update_weights(self, total, total)
       IN  /\ self' = r.self
           /\ err' = r.err
    /\ op' = "update_weights"
    /\ pc' = "idle"
    /\ UNCHANGED <<arg, passes>>

Next ==
    \/ ConstructList
    \/ ConstructFile
    \/ Load
    \/ FeedForward
    \/ Backprop
    \/ UpdateBiases
    \/ UpdateWeights

Spec == Init /\ [][Next]_vars

\* ------------------------------------------------------------- properties
BeforeCall == self

AfterCall == self'

Layers(s) == 1..(Len(s.shape) - 1)

\* delta l has dimensions (shape[l], k), k the columns of the current batch
WellShapedDeltas(s, k) ==
    /\ "deltas" \in s.attrs
    /\ Len(s.deltas) = Len(s.shape) - 1
    /\ \A l \in Layers(s) : Dims(s.deltas[l]) = <<s.shape[l + 1], k>>

\* C1: a load that raises leaves shape, weights and biases as they were
\* before the call; none of the three is assigned unless all three are.
FailedLoadLeavesStateUntouched ==
    [][(op' \in {"load", "init_str"} /\ err' # "none")
         => /\ AfterCall.attrs = BeforeCall.attrs
            /\ AfterCall.shape = BeforeCall.shape
            /\ AfterCall.weights = BeforeCall.weights
            /\ AfterCall.biases = BeforeCall.biases]_vars

\* C2: every network a successful load produces satisfies the layer-count
\* and dimension invariants of its declared shape (an inconsistent document
\* makes load fail).
LoadedNetworkIsWellFormed ==
    (op \in {"load", "init_str"} /\ err = "none") => WellFormed(self)

\* C3: load on a document that lacks one of the keys shape, weights, biases
\* raises KeyError, and the error leaves load and the constructor.
MissingKeyReachesCaller ==
    (op \in {"load", "init_str"} /\ arg.exists /\ ~(Keys \subseteq DOMAIN arg.doc))
        => /\ err = "KeyError"
           /\ (op = "init_str" => pc = "dead")

MissingKeyWitness ==
    /\ op = "init_str"
    /\ arg.exists
    /\ DOMAIN arg.doc = {"shape", "weights"}
    /\ err = "KeyError"

\* C4: a shape list of fewer than two elements is rejected with ValueError
\* before any attribute of the network is assigned.
ShortShapeRejected ==
    (op = "init_list" /\ Len(arg) < 2)
        => /\ err = "ValueError"
           /\ self = NoObject
           /\ pc = "dead"

ShortShapeWitness ==
    /\ op = "init_list"
    /\ Len(arg) = 1
    /\ err = "ValueError"

\* C5: on a network whose parameters have the dimensions of its shape, the
\* forward pass of a batch of k columns completes and gives every layer
\* l >= 1 an output and an activation of dimensions (shape[l], k); these are
\* the entries the pass appends to outputs and activations.
ForwardKeepsBatchColumns ==
    [][(op' = "forward" /\ WellFormed(BeforeCall) /\ "activation" \in BeforeCall.attrs)
         => /\ err' = "none"
            /\ Len(AfterCall.outputs) = Len(BeforeCall.outputs) + Len(BeforeCall.shape) - 1
            /\ Len(AfterCall.activations)
                 = Len(BeforeCall.activations) + Len(BeforeCall.shape) - 1
            /\ \A l \in Layers(BeforeCall) :
                 /\ Dims(AfterCall.outputs[Len(BeforeCall.outputs) + l])
                      = <<BeforeCall.shape[l + 1], Cols(arg')>>
                 /\ Dims(AfterCall.activations[Len(BeforeCall.activations) + l])
                      = <<BeforeCall.shape[l + 1], Cols(arg')>>]_vars

ForwardDimsWitness ==
    /\ op = "forward"
    /\ err = "none"
    /\ WellFormed(self)
    /\ Len(self.shape) >= 3
    /\ Cols(arg) = 2
    /\ Dims(self.activations[Len(self.activations)]) = <<self.shape[Len(self.shape)], 2>>
    /\ Dims(self.outputs[Len(self.outputs)]) = <<self.shape[Len(self.shape)], 2>>

DocumentedBiases(s, rate) ==
    [l \in 1..Len(s.biases) |->
        Sub(s.biases[l],
            Scale(rate, Reshape(SumAxis1(s.deltas[l]), Dims(s.biases[l])).val))]

\* C7: for well-shaped deltas the bias update completes without error and
\* replaces every bias by bias - (learningRate / batchSize) * the column
\* sum of its delta, reshaped to the bias's (shape[l], 1).
BiasUpdateApplies ==
    [][(op' = "update_biases" /\ WellFormed(BeforeCall)
          /\ WellShapedDeltas(BeforeCall, Cols(arg)))
         => /\ err' = "none"
            /\ AfterCall.biases = DocumentedBiases(BeforeCall, 1)]_vars

\* C8: after every forward pass, whatever passes ran before it, outputs
\* holds one entry per non-input layer and activations one per layer,
\* activations[0] is the batch of this pass and every entry has its columns.
ForwardIntermediatesScoped ==
    (op = "forward" /\ err = "none" /\ WellFormed(self))
        => /\ Len(self.outputs) = Len(self.shape) - 1
           /\ Len(self.activations) = Len(self.shape)
           /\ self.activations[1] = arg
           /\ \A l \in 1..Len(self.outputs) : Cols(self.outputs[l]) = Cols(arg)
           /\ \A l \in 1..Len(self.activations) : Cols(self.activations[l]) = Cols(arg)

\* C9: the forward pass writes outputs and activations only: shape, every
\* weight and every bias are after the pass what they were before it.
ForwardLeavesParameters ==
    [][op' = "forward"
         => /\ AfterCall.shape = BeforeCall.shape
            /\ AfterCall.weights = BeforeCall.weights
            /\ AfterCall.biases = BeforeCall.biases
            /\ AfterCall.activation = BeforeCall.activation
            /\ AfterCall.deltas = BeforeCall.deltas
            /\ AfterCall.attrs \ {"activations", "outputs"}
                 = BeforeCall.attrs \ {"activations", "outputs"}]_vars

ForwardOnLoadedWitness ==
    /\ op = "forward"
    /\ err = "none"
    /\ passes = 2
    /\ self.weights # InitWeights(self.shape)
    /\ self.outputs # <<>>

\* C10: a network constructed from a file has, like one constructed from a
\* list, its activation function and its outputs and activations containers
\* set.
FileNetworkFullyInitialized ==
    (op = "init_str" /\ err = "none")
        => {"activation", "outputs", "activations"} \subseteq self.attrs

====
